---- MODULE Spec2Model ----
(***************************************************************************)
(* One run of the gcalsns notification pipeline (AppContext):              *)
(* authorize -> fetchData -> processEvents -> finalize.                    *)
(*                                                                         *)
(* JavaScript is run-to-completion: code between two awaits is one atomic  *)
(* step.  Every action below is one such step: the synchronous part of a   *)
(* method, or the continuation that runs when an awaited external call     *)
(* settles.  External collaborators (DynamoDB, SNS, SES, Google APIs) are  *)
(* the environment: their answers are drawn with \E.                       *)
(***************************************************************************)
EXTENDS Integers, Sequences, FiniteSets, TLC

(* ------------------------------ bounds --------------------------------- *)
MaxEvents == 2      \* longest list of today's events
MaxQuota == 2       \* the configured monthly quota; stored counts go one beyond it
MaxRuns == 2        \* invocations of the handler within one month
MaxDigits == 11     \* most digits in a raw phone text of the contacts sheet
MaxRows == 2        \* most rows in a contacts sheet with mixed rows
MaxReconciles == 2  \* applications of updateTokenOnRefresh to one snapshot

(* ------------------------- values of the domain ------------------------ *)
\* Event summaries, as sequences of characters.
Summaries ==
  { <<>>, <<"x", "*">>, <<"*", "J", "*", "x">> }

EventLists ==
  UNION { [1..n -> Summaries] : n \in 0..MaxEvents }

\* Raw EMAIL_RECIPIENTS values.
RecipientConfigs == { <<>>, <<"a">> }

\* Token records the Token table can hold under the id 'gcalsns-google'.
StoredTokens ==
  { [access_token |-> "a1", refresh_token |-> "r1", expiry_date |-> 1],
    [access_token |-> "a1", refresh_token |-> "",   expiry_date |-> 1] }

NoCredentials ==
  [access_token |-> "", refresh_token |-> "", expiry_date |-> 0, id_token |-> ""]

Line(kind, text, detail, count) ==
  [kind |-> kind, text |-> text, detail |-> detail, count |-> count]

\* JavaScript truthiness of the values a sendTextMessage promise resolves to.
Truthy(v) == v \notin { "false", "" }

VARIABLES
  config,       \* AppConfig: sms.enabled, sms.monthlyQuota, email.*
  smsImpl,      \* which SmsService.sendTextMessage is linked ("boolean" | "string")
  phase,        \* INIT, AUTHORIZED, FETCHED, PROCESSING, PROCESSED, FINALIZING, FINALIZED, FAILED
  failedAt,     \* lifecycle event that rejected ("" while none)
  tokenTable,   \* DynamoDB Token table: {} or {content}
  countTable,   \* DynamoDB SmsCount table, current month: {} or {count}
  credentials,  \* this.auth.credentials
  phoneBook,    \* this.phoneBook
  todaysEvents, \* this.todaysEvents
  oldCount,     \* this.oldCount
  sentCount,    \* this.sentCount
  appEvents,    \* this.appEvents
  tasks,        \* one processEvent promise per event
  fin,          \* the three promises of finalize
  io,           \* counters of external calls made by this run
  mainResult,   \* the promise main() hands back to the Lambda runtime
  range,        \* the ValueRange answered by the Sheets API to getContacts
  runs,         \* invocations this month: number of this run, SMS delivered by earlier ones
  event,        \* a calendar event handed to toTextMessage, and what came of it
  appStart,     \* this.appStart: the Moment taken in the constructor
  monthKeys     \* the 'YYYY-MM' keys the SmsCount table was asked for

vars == << config, smsImpl, phase, failedAt, tokenTable, countTable, credentials,
           phoneBook, todaysEvents, oldCount, sentCount, appEvents, tasks, fin, io,
           mainResult, range, runs,
                  event, appStart, monthKeys >>

(* --------------------------- pure helpers ------------------------------ *)
\* String.prototype.toLowerCase on the characters used here.
toLowerCase(s) ==
  [i \in 1..Len(s) |-> IF s[i] = "J" THEN "j" ELSE IF s[i] = "K" THEN "k" ELSE s[i]]

\* String.prototype.trim: leading and trailing blanks removed.
trim(s) ==
  LET inked == { i \in 1..Len(s) : s[i] # " " }
  IN  IF inked = {} THEN <<>>
      ELSE SubSeq(s, CHOOSE a \in inked : \A b \in inked : a <= b,
                     CHOOSE a \in inked : \A b \in inked : a >= b)

(* --------------------------- ContactsService --------------------------- *)
IsDigit(c) == c \in { "0", "1", "2", "3", "4", "5", "6", "7", "8", "9" }

\* A formatPhone that takes any 11 digits, whatever the first one.
formatPhoneAnyEleven(s) ==
  LET ret == SelectSeq(s, IsDigit)
  IN  IF Len(ret) = 11 THEN <<"+">> \o ret
      ELSE IF Len(ret) = 10 THEN <<"+", "1">> \o ret
      ELSE <<>>

\* formatPhone: s.replace(/[^0-9]/g, ''), then the two accepted shapes;
\* the blank string otherwise.
formatPhone(s) ==
  LET ret == SelectSeq(s, IsDigit)
  IN  IF Len(ret) = 11 /\ ret[1] = "1" THEN <<"+">> \o ret
      ELSE IF Len(ret) = 10 THEN <<"+", "1">> \o ret
      ELSE <<>>

\* A row test that keeps rows whose phone number could not be parsed.
isParsedAlways(contactId, phoneNumber) == TRUE

\* if (contactId && phoneNumber)
isParsed(contactId, phoneNumber) == contactId # <<>> /\ phoneNumber # <<>>

HasTwoColumns(row) == Len(row) > 1

RECURSIVE forEachRow(_, _)
\* rows.forEach(row => { ... ret[contactId] = phoneNumber ... })
forEachRow(rows, ret) ==
  IF rows = <<>> THEN ret
  ELSE LET row == Head(rows)
           contactId == toLowerCase(trim(row[1]))
           phoneNumber == formatPhone(row[2])
       IN  forEachRow(Tail(rows),
                      IF isParsed(contactId, phoneNumber)
                      THEN [k \in DOMAIN ret \cup { contactId } |->
                              IF k = contactId THEN phoneNumber ELSE ret[k]]
                      ELSE ret)

\* parseContacts(range): (range.values || []).filter(...).forEach(...)
parseContacts(values) == forEachRow(SelectSeq(values, HasTwoColumns), <<>>)

\* The two sheets the pipeline runs are given: an empty one, and one row
\* for the contact J.
SheetValues ==
  { <<>>,
    << << <<" ", "J">>,
          <<"(", "5", "5", "5", ")", " ", "1", "2", "3", "-", "4", "5", "6", "7">> >> >> }

\* Phone books the contacts sheet can yield (contact id -> phone number).
PhoneBooks == { parseContacts(v) : v \in SheetValues }

(* ------------------------------ summaries ------------------------------ *)
\* Positions <<i, j>> of the leftmost match of /\*([^\*]+)\*/ in s, or <<>>.
IsMatchAt(s, i, j) ==
  /\ s[i] = "*"
  /\ s[j] = "*"
  /\ j >= i + 2
  /\ \A k \in (i+1)..(j-1) : s[k] # "*"

EVENT_SUMMARY_REGEX(s) ==
  LET starts == { i \in 1..Len(s) : \E j \in 1..Len(s) : IsMatchAt(s, i, j) }
  IN  IF starts = {} THEN <<>>
      ELSE LET i == CHOOSE a \in starts : \A b \in starts : a <= b
               j == CHOOSE b \in 1..Len(s) : IsMatchAt(s, i, b)
           IN  <<i, j>>

\* Result of a thrown value: how JSON.stringify renders it in the outcome line.
Thrown(detail) == [ok |-> FALSE, detail |-> detail, phoneNumber |-> <<>>, textMessage |-> <<>>]

readEventInfo(summary, book) ==
  IF summary = <<>> THEN Thrown("{}")                    \* new Error('Event has no summary')
  ELSE LET m == EVENT_SUMMARY_REGEX(summary)
       IN  IF m = <<>> THEN Thrown("Non-notification event")   \* a thrown string
           ELSE LET contactName == SubSeq(summary, m[1] + 1, m[2] - 1)
                    contactId   == toLowerCase(contactName)
                    eventName   == SubSeq(summary, 1, m[1] - 1) \o
                                   SubSeq(summary, m[2] + 1, Len(summary))
                IN  IF contactId \notin DOMAIN book
                    THEN Thrown("{}")                    \* new Error('No phone number for ...')
                    ELSE [ok |-> TRUE, detail |-> "", phoneNumber |-> book[contactId],
                          textMessage |-> eventName]

\* An off-by-one quota test: the ceiling itself still admits.
isMonthlyQuotaReachedOffByOne(old, sent, quota) == ~((old + sent) <= quota)

isMonthlyQuotaReached(old, sent, quota) == ~((old + sent) < quota)


(* ------------------------------ SmsService ----------------------------- *)
\* What a call of sendTextMessage does before its promise settles:
\* publish = an SNS request was issued; value = what the promise resolves
\* to when no request was issued.
\* A sendTextMessage that forgets the sms.enabled switch.
sendTextMessageAlways(enabled) == [publish |-> TRUE, value |-> ""]

sendTextMessageBoolean(enabled) ==
  IF enabled THEN [publish |-> TRUE,  value |-> ""]
             ELSE [publish |-> FALSE, value |-> "false"]

sendTextMessageString(enabled) ==
  IF ~enabled THEN [publish |-> FALSE, value |-> "Sending texts is currently disabled."]
              ELSE [publish |-> TRUE,  value |-> ""]

sendTextMessage(impl, enabled) ==
  IF impl = "boolean" THEN sendTextMessageBoolean(enabled)
                      ELSE sendTextMessageString(enabled)

\* Value the promise resolves to when sns.publish answered with a MessageId.
publishResolved(impl) ==
  IF impl = "boolean" THEN "true" ELSE "Text sent with MessageId"

(* --------------------------- processEvent ------------------------------ *)
Task(st, line, publish, value, info) ==
  [st |-> st, line |-> line, publish |-> publish, value |-> value,
   admitted |-> info.ok, phoneNumber |-> info.phoneNumber, textMessage |-> info.textMessage]

NoLine == Line("", <<>>, "", 0)

InfoOf(task) ==
  [ok |-> task.admitted, detail |-> "", phoneNumber |-> task.phoneNumber,
   textMessage |-> task.textMessage]

\* A processEvent that lets the error escape instead of returning a line.
processEventRethrow(summary, detail, publish, info) ==
  Task("rejected", Line("", <<>>, "", 0), publish, "", info)

\* A catch that hands the message to the messaging service once more.
processEventCatchResend(summary, detail, publish, info) ==
  Task("awaiting", NoLine, TRUE, "", info)

\* catch (err) { return `An error occurred during while processing ...` }
processEventCatch(summary, detail, publish, info) ==
  Task("resolved", Line("Error", summary, detail, 0), publish, "", info)

\* processEvent from its call to its first suspension (or to its return).
processEventBegin(summary, old, sent, quota, book, impl, enabled) ==
  IF ~isMonthlyQuotaReached(old, sent, quota)
  THEN LET eventInfo == readEventInfo(summary, book)
       IN  IF ~eventInfo.ok
           THEN processEventCatch(summary, eventInfo.detail, FALSE, eventInfo)
           ELSE LET p == sendTextMessage(impl, enabled)
                IN  Task("awaiting", NoLine, p.publish, p.value, eventInfo)
  ELSE Task("resolved", Line("QuotaReached", <<>>, "", old + sent), FALSE, "", Thrown(""))

\* processEvent after `await sendTextMessage(...)` resolved with `sent`.
processEventSent(task, sent) ==
  [task EXCEPT !.st = "resolved",
               !.line = IF Truthy(sent)
                        THEN Line("TextSent", task.textMessage, task.phoneNumber, 0)
                        ELSE Line("WouldHaveSent", task.textMessage, task.phoneNumber, 0)]

\* sentCount after `if (sent) { this.sentCount++; ... }`.
sentCountAfter(count, sent) == IF Truthy(sent) THEN count + 1 ELSE count

(* ------------------------------ datastores ----------------------------- *)
MONTH == "YYYY-MM"      \* appStart.format(MONTH_FORMAT)
NaN == -1               \* parseInt of something that is not a number

\* A DynamoDB item of the SmsCount table; put() answers with no Attributes.
NoAttributes == [Month |-> "undefined", Count |-> NaN]

toType(item) ==
  [month |-> item.Month, count |-> IF item.Count = NaN THEN 0 ELSE item.Count]

toItem(obj) == [Month |-> obj.month, Count |-> obj.count]

\* A getCountByMonth that hands on the count of an item that is not there.
getCountByMonthUnchecked(table, readFails) ==
  IF readFails THEN 0
  ELSE IF table = {} THEN NaN
  ELSE toType([Month |-> MONTH, Count |-> CHOOSE c \in table : TRUE]).count

\* getCountByMonth: getById(...).then(result => result.count).catch(err => 0)
getCountByMonth(table, readFails) ==
  IF readFails \/ table = {} THEN 0
  ELSE toType([Month |-> MONTH, Count |-> CHOOSE c \in table : TRUE]).count

\* An update that saves one more than it was given.
updateCountByMonthPlusOne(count, enabled) ==
  [put |-> enabled, entry |-> [month |-> MONTH, count |-> count + 1]]

\* An update that saves whether or not SMS is enabled.
updateCountByMonthAlways(count, enabled) ==
  [put |-> TRUE, entry |-> [month |-> MONTH, count |-> count]]

\* updateCountByMonth: whether a put is issued, and the entry built.
updateCountByMonth(count, enabled) ==
  [put |-> enabled, entry |-> [month |-> MONTH, count |-> count]]

\* What save() resolves to after a successful put.
save(obj) == toType(NoAttributes)

(* ------------------------------- email --------------------------------- *)
RECURSIVE split(_)
\* String.prototype.split(',') on a sequence of characters.
split(s) ==
  IF \A i \in 1..Len(s) : s[i] # ","
  THEN << s >>
  ELSE LET i == CHOOSE a \in 1..Len(s) :
                  s[a] = "," /\ \A b \in 1..(a-1) : s[b] # ","
       IN  << SubSeq(s, 1, i - 1) >> \o split(SubSeq(s, i + 1, Len(s)))

\* context.config.email.recipients.split(',').map(s => s.trim())
RecipientsOf(raw) == [i \in 1..Len(split(raw)) |-> trim(split(raw)[i])]

\* sendHtmlEmail up to its first suspension: "skip", "disabled" or "send".
sendHtmlEmail(recipients, enabled) ==
  IF Len(recipients) = 0 THEN "skip"
  ELSE IF ~enabled THEN "disabled"
  ELSE "send"

(* ----------------------------- credentials ----------------------------- *)
\* A reconciliation that does not look at id_token.
updateTokenAlways(auth) ==
  /\ auth.access_token # ""
  /\ auth.expiry_date # 0
  /\ auth.refresh_token # ""

\* The condition of updateTokenOnRefresh.
updateTokenOnRefresh(auth) ==
  /\ auth.id_token # ""
  /\ auth.access_token # ""
  /\ auth.expiry_date # 0
  /\ auth.refresh_token # ""

\* A token record that is bumped each time it is rewritten.
GoogleAuthTokenBumped(auth) ==
  [access_token |-> auth.access_token,
   expiry_date |-> auth.expiry_date + (io.tokenPuts - 1),
   refresh_token |-> auth.refresh_token]

GoogleAuthTokenOf(auth) ==
  [access_token |-> auth.access_token, expiry_date |-> auth.expiry_date,
   refresh_token |-> auth.refresh_token]

(* ------------------------- lifecycle and main -------------------------- *)
\* A lifecycleEvent that logs the failure but does not rethrow it.
lifecycleEventSwallow(eventName, rejected, done, failed) ==
  [phase |-> done, failedAt |-> IF rejected THEN eventName ELSE failed]

\* A lifecycleEvent that starts the run over when its promise rejects.
lifecycleEventRestart(eventName, rejected, done, failed) ==
  IF rejected THEN [phase |-> "INIT", failedAt |-> eventName]
              ELSE [phase |-> done, failedAt |-> failed]

\* lifecycleEvent(eventName, promise): await the promise; a rejection is
\* logged and rethrown, which ends the chain of main.
lifecycleEvent(eventName, rejected, done, failed) ==
  IF rejected THEN [phase |-> "FAILED", failedAt |-> eventName]
              ELSE [phase |-> done, failedAt |-> failed]

\* The promise returned by main(): `.then(results => results.join("\n"))`
\* fulfils it with the joined lines, `.catch(err => console.error(err))`
\* fulfils it with undefined.
main(ph) ==
  IF ph = "FINALIZED" THEN [st |-> "fulfilled", value |-> "results"]
  ELSE IF ph = "FAILED" THEN [st |-> "fulfilled", value |-> "undefined"]
  ELSE [st |-> "pending", value |-> ""]

(* ------------------------------ time zones ----------------------------- *)
\* Zones of the tz database the model knows, with their offset from UTC in
\* hours (no daylight saving).  Undefined is JavaScript's undefined.
TimeZones == { "UTC", "America/New_York", "Asia/Tokyo" }

Undefined == "undefined"

utcOffset(timeZone) ==
  CASE timeZone = "UTC" -> 0
    [] timeZone = "America/New_York" -> 0 - 5
    [] timeZone = "Asia/Tokyo" -> 9

\* Instants are hours since the start of a month; days have 24 hours.
\* format(dateFormat) and format(timeFormat) of an instant shown in a zone.
format(at, timeZone) ==
  [date |-> (at + utcOffset(timeZone)) \div 24, time |-> (at + utcOffset(timeZone)) % 24]

\* toTextMessage: `timeZone = event.start!.timeZone!`; an all-day event is
\* moment.tz(date, 'YYYY-MM-DD', timeZone).startOf('day'), which moment-timezone
\* builds in UTC when the zone name is undefined; a timed event is
\* moment(dateTime).tz(timeZone), which is undefined when the name is
\* undefined, so that start.format throws a TypeError.
toTextMessage(start) ==
  LET timeZone == start.timeZone
  IN  IF start.kind = "date"
      THEN [st |-> "rendered", timeZone |-> timeZone, date |-> start.at, time |-> 0]
      ELSE IF timeZone = Undefined
           THEN [st |-> "thrown", timeZone |-> timeZone, date |-> 0, time |-> 0]
           ELSE [st |-> "rendered", timeZone |-> timeZone,
                 date |-> format(start.at, timeZone).date,
                 time |-> format(start.at, timeZone).time]

(* -------------------------------- Init --------------------------------- *)
NoEvent ==
  [st |-> "none", start |-> [kind |-> "date", at |-> 0, timeZone |-> Undefined],
   calendarTimeZone |-> "UTC", message |-> [st |-> "none"]]

NoMoment == [at |-> 0, timeZone |-> "UTC"]

NoMonthKeys == [st |-> "none", calendarTimeZone |-> "UTC", read |-> "", written |-> ""]

NoFin == [st |-> "none", line |-> NoLine]

NoRange == [st |-> "none", values |-> <<>>]

NoIo ==
  [tokenGets |-> 0, tokenPuts |-> 0, countGets |-> 0, countGetFails |-> 0, countPuts |-> 0,
   publishes |-> 0, emails |-> 0]

Init ==
  /\ config \in [smsEnabled : BOOLEAN, monthlyQuota : {MaxQuota},
                 emailEnabled : BOOLEAN, recipients : RecipientConfigs]
  /\ smsImpl \in { "boolean", "string" }
  /\ phase = "INIT"
  /\ failedAt = ""
  /\ tokenTable \in { {} } \cup { {t} : t \in StoredTokens }
  /\ countTable \in { {} } \cup { {c} : c \in 0..(MaxQuota + 1) }
  /\ credentials = NoCredentials
  /\ phoneBook = <<>>
  /\ todaysEvents = <<>>
  /\ oldCount = 0
  /\ sentCount = 0
  /\ appEvents = <<>>
  /\ tasks = <<>>
  /\ fin = [count |-> NoFin, email |-> NoFin, token |-> NoFin]
  /\ io = NoIo
  /\ mainResult = main("INIT")
  /\ range = NoRange
  /\ runs = [n |-> 1, sent |-> 0]
  /\ event = NoEvent
  /\ appStart = NoMoment
  /\ monthKeys = NoMonthKeys

(* ------------------------------ authorize ------------------------------ *)
\* An authorization that finds an id_token on the client it sets up.
authorizeGoogleServicesWithId(token) ==
  [access_token  |-> token.access_token,
   refresh_token |-> token.refresh_token,
   expiry_date   |-> token.expiry_date,
   id_token      |-> "id"]

\* authorizeGoogleServices(token): the credentials set on the OAuth2 client
\* are the three fields of the stored token and nothing else.
authorizeGoogleServices(token) ==
  [access_token  |-> token.access_token,
   refresh_token |-> token.refresh_token,
   expiry_date   |-> token.expiry_date,
   id_token      |-> ""]

\* authorize(): getToken() then authorizeGoogleServices(token).
authorize ==
  /\ phase = "INIT"
  /\ io' = [io EXCEPT !.tokenGets = @ + 1]
  /\ \E readFails \in BOOLEAN :
       LET rejected == readFails \/ tokenTable = {}
           done == lifecycleEvent("authorize", rejected, "AUTHORIZED", failedAt)
       IN  /\ credentials' =
                 IF rejected THEN credentials
                 ELSE authorizeGoogleServices(CHOOSE t \in tokenTable : TRUE)
           /\ phase' = done.phase
           /\ failedAt' = done.failedAt
  /\ mainResult' = main(phase')
  /\ UNCHANGED << config, smsImpl, tokenTable, countTable, phoneBook, todaysEvents,
                  oldCount, sentCount, appEvents, tasks, fin,
                  range, runs,
                  event, appStart, monthKeys >>

(* ------------------------------ fetchData ------------------------------ *)
\* Credentials after the OAuth2 client refreshed the access token while
\* serving a Google API request; the answer may or may not carry an id_token.
Refreshed(auth, withIdToken) ==
  [access_token  |-> "a2",
   refresh_token |-> auth.refresh_token,
   expiry_date   |-> 2,
   id_token      |-> IF withIdToken THEN "id" ELSE ""]

\* fetchData(): Promise.all of contacts, today's events and the current count.
fetchData ==
  /\ phase = "AUTHORIZED"
  /\ \E contactsOk \in BOOLEAN, book \in PhoneBooks,
        eventsOk \in BOOLEAN, events \in EventLists,
        countFails \in BOOLEAN,
        refresh \in { "none", "id", "noid" } :
       /\ contactsOk \/ book = <<>>
       /\ eventsOk \/ events = <<>>
       /\ refresh # "none" => credentials.refresh_token # ""
       /\ phoneBook' = IF contactsOk THEN book ELSE phoneBook
       /\ todaysEvents' = IF eventsOk THEN events ELSE todaysEvents
       /\ oldCount' = getCountByMonth(countTable, countFails)
       /\ credentials' = IF refresh = "none" THEN credentials
                         ELSE Refreshed(credentials, refresh = "id")
       /\ io' = [io EXCEPT !.countGets = @ + 1,
                           !.countGetFails = @ + (IF countFails THEN 1 ELSE 0)]
       /\ LET done == lifecycleEvent("fetchData", ~(contactsOk /\ eventsOk), "FETCHED",
                                     failedAt)
          IN  phase' = done.phase /\ failedAt' = done.failedAt
  /\ mainResult' = main(phase')
  /\ UNCHANGED << config, smsImpl, tokenTable, countTable, sentCount, appEvents,
                  tasks, fin,
                  range, runs,
                  event, appStart, monthKeys >>

(* ---------------------------- processEvents ---------------------------- *)
\* processEvents(): with no events, one line; otherwise every processEvent is
\* called in turn and runs to its first await before the next one is called.
processEvents ==
  /\ phase = "FETCHED"
  /\ IF Len(todaysEvents) = 0
     THEN /\ appEvents' = Append(appEvents, Line("NoEvents", <<>>, "", 0))
          /\ phase' = "PROCESSED"
          /\ UNCHANGED << tasks, io >>
     ELSE /\ tasks' = [i \in 1..Len(todaysEvents) |->
                         processEventBegin(todaysEvents[i], oldCount, sentCount,
                                           config.monthlyQuota, phoneBook,
                                           smsImpl, config.smsEnabled)]
          /\ io' = [io EXCEPT !.publishes =
                      @ + Cardinality({ i \in 1..Len(todaysEvents) : tasks'[i].publish })]
          /\ phase' = "PROCESSING"
          /\ UNCHANGED appEvents
  /\ UNCHANGED << config, smsImpl, failedAt, tokenTable, countTable, credentials,
                  phoneBook, todaysEvents, oldCount, sentCount, fin,
                  mainResult, range, runs,
                  event, appStart, monthKeys >>

\* The continuation of processEvent(i) after its await settled.
processEventResume(i) ==
  /\ phase = "PROCESSING"
  /\ tasks[i].st = "awaiting"
  /\ \E ok \in BOOLEAN :
       /\ ok \/ tasks[i].publish
       /\ IF ok
          THEN LET sent == IF tasks[i].publish THEN publishResolved(smsImpl)
                                               ELSE tasks[i].value
               IN  /\ sentCount' = sentCountAfter(sentCount, sent)
                   /\ tasks' = [tasks EXCEPT ![i] = processEventSent(tasks[i], sent)]
          ELSE /\ tasks' = [tasks EXCEPT ![i] =
                             processEventCatch(todaysEvents[i], "AWSError", TRUE,
                                               InfoOf(tasks[i]))]
               /\ UNCHANGED sentCount
  /\ UNCHANGED << config, smsImpl, phase, failedAt, tokenTable, countTable, credentials,
                  phoneBook, todaysEvents, oldCount, appEvents, fin, io,
                  mainResult, range, runs,
                  event, appStart, monthKeys >>

\* A combinator that is satisfied by the first promise to fulfil.
anyFulfilled(ts) == \E i \in 1..Len(ts) : ts[i].st = "resolved"

\* Promise.all fulfils once every one of its promises has fulfilled.
allFulfilled(ts) == \A i \in 1..Len(ts) : ts[i].st = "resolved"

\* Results in the reverse of the order of the events.
resultsReversed(ts) == [i \in 1..Len(ts) |-> ts[Len(ts) + 1 - i].line]

\* What Promise.all resolves to: the results in the order of the promises.
results(ts) == [i \in 1..Len(ts) |-> ts[i].line]

\* Promise.all(...).then(results => results.forEach(r => appEvents.push(r))),
\* inside lifecycleEvent.
processEventsThen ==
  /\ phase = "PROCESSING"
  /\ LET rejected == \E i \in 1..Len(tasks) : tasks[i].st = "rejected"
         done == lifecycleEvent("processEvents", rejected, "PROCESSED", failedAt)
     IN  /\ rejected \/ allFulfilled(tasks)
         /\ appEvents' = IF rejected THEN appEvents ELSE appEvents \o results(tasks)
         /\ phase' = done.phase
         /\ failedAt' = done.failedAt
  /\ mainResult' = main(phase')
  /\ UNCHANGED << config, smsImpl, tokenTable, countTable, credentials, phoneBook,
                  todaysEvents, oldCount, sentCount, tasks, fin, io,
                  range, runs,
                  event, appStart, monthKeys >>

(* ------------------------------- finalize ------------------------------ *)
\* The promise of `updateCount(oldCount + sentCount).then(...)` when created.
finalizeCount(count, enabled) ==
  LET u == updateCountByMonth(count, enabled)
  IN  IF u.put
      THEN [st |-> "pending", line |-> NoLine, entry |-> u.entry]
      ELSE [st |-> "resolved", line |-> Line("Stored", <<>>, u.entry.month, u.entry.count),
            entry |-> u.entry]

\* summarizeAppEvents: an <h1> title and one <li> per line of appEvents.
summarizeAppEvents(events) == [h1 |-> "Summary", ul |-> events]

\* A summary email whose promise nobody ever settles.
finalizeEmailUnsettled(recipients, enabled, html) ==
  [st |-> "unsettled", line |-> NoLine, html |-> html]

\* A summary email that is left out without asking SES.
finalizeEmailSkipped(recipients, enabled, html) ==
  [st |-> "resolved", line |-> Line("EmailDisabled", <<>>, "", 0), html |-> html]

\* The promise of `sendHtmlEmail(summarizeAppEvents(appEvents))` when created.
finalizeEmail(recipients, enabled, html) ==
  LET r == sendHtmlEmail(recipients, enabled)
  IN  IF r = "send" THEN [st |-> "pending", line |-> NoLine, html |-> html]
      ELSE [st |-> "resolved",
            line |-> Line(IF r = "skip" THEN "NoRecipients" ELSE "EmailDisabled", <<>>, "", 0),
            html |-> html]

\* The promise of `updateTokenOnRefresh(auth.credentials)` when created.
finalizeToken(auth) ==
  IF updateTokenOnRefresh(auth)
  THEN [st |-> "pending", line |-> NoLine]
  ELSE [st |-> "resolved", line |-> Line("NoTokenUpdate", <<>>, "", 0)]

\* finalize(): the three promises are created in one synchronous step.
finalize ==
  /\ phase = "PROCESSED"
  /\ fin' = [count |-> finalizeCount(oldCount + sentCount, config.smsEnabled),
             email |-> finalizeEmail(RecipientsOf(config.recipients), config.emailEnabled,
                                     summarizeAppEvents(appEvents)),
             token |-> finalizeToken(credentials)]
  /\ io' = [io EXCEPT !.countPuts = @ + (IF fin'.count.st = "pending" THEN 1 ELSE 0),
                      !.emails    = @ + (IF fin'.email.st = "pending" THEN 1 ELSE 0),
                      !.tokenPuts = @ + (IF fin'.token.st = "pending" THEN 1 ELSE 0)]
  /\ phase' = "FINALIZING"
  /\ UNCHANGED << config, smsImpl, failedAt, tokenTable, countTable, credentials,
                  phoneBook, todaysEvents, oldCount, sentCount, appEvents, tasks,
                  mainResult, range, runs,
                  event, appStart, monthKeys >>

\* The put of the SmsCount item settles.
countPutSettles ==
  /\ fin.count.st = "pending"
  /\ \E ok \in BOOLEAN :
       IF ok
       THEN /\ countTable' = { toItem(fin.count.entry).Count }
            /\ fin' = [fin EXCEPT !.count.st = "resolved",
                                  !.count.line = Line("Stored", <<>>,
                                                      save(fin.count.entry).month,
                                                      save(fin.count.entry).count)]
       ELSE /\ fin' = [fin EXCEPT !.count.st = "rejected"]
            /\ UNCHANGED countTable
  /\ UNCHANGED << config, smsImpl, phase, failedAt, tokenTable, credentials, phoneBook,
                  todaysEvents, oldCount, sentCount, appEvents, tasks, io,
                  mainResult, range, runs,
                  event, appStart, monthKeys >>

\* The SES sendEmail request settles.
emailSettles ==
  /\ fin.email.st = "pending"
  /\ \E ok \in BOOLEAN :
       fin' = IF ok
              THEN [fin EXCEPT !.email.st = "resolved",
                               !.email.line = Line("EmailSent", <<>>, "", 0)]
              ELSE [fin EXCEPT !.email.st = "rejected"]
  /\ UNCHANGED << config, smsImpl, phase, failedAt, tokenTable, countTable, credentials,
                  phoneBook, todaysEvents, oldCount, sentCount, appEvents, tasks, io,
                  mainResult, range, runs,
                  event, appStart, monthKeys >>

\* The put of the Token item settles; updateTokenOnRefresh catches a failure.
tokenPutSettles ==
  /\ fin.token.st = "pending"
  /\ \E ok \in BOOLEAN :
       IF ok
       THEN /\ tokenTable' = { GoogleAuthTokenOf(credentials) }
            /\ fin' = [fin EXCEPT !.token.st = "resolved",
                                  !.token.line = Line("TokenSaved", <<>>, "", 0)]
       ELSE /\ fin' = [fin EXCEPT !.token.st = "resolved",
                                  !.token.line = Line("TokenSaveError", <<>>, "", 0)]
            /\ UNCHANGED tokenTable
  /\ UNCHANGED << config, smsImpl, phase, failedAt, countTable, credentials, phoneBook,
                  todaysEvents, oldCount, sentCount, appEvents, tasks, io,
                  mainResult, range, runs,
                  event, appStart, monthKeys >>

FinTasks == { "count", "email", "token" }

\* Promise.all of finalize settles: rejected by the first rejection,
\* fulfilled once all three are fulfilled.
finalizeSettles ==
  /\ phase = "FINALIZING"
  /\ IF \E t \in FinTasks : fin[t].st = "rejected"
     THEN /\ phase' = "FAILED"
          /\ failedAt' = "finalize"
     ELSE /\ \A t \in FinTasks : fin[t].st = "resolved"
          /\ phase' = "FINALIZED"
          /\ UNCHANGED failedAt
  /\ mainResult' = main(phase')
  /\ UNCHANGED << config, smsImpl, tokenTable, countTable, credentials, phoneBook,
                  todaysEvents, oldCount, sentCount, appEvents, tasks, fin, io,
                  range, runs,
                  event, appStart, monthKeys >>

Next ==
  \/ authorize
  \/ fetchData
  \/ processEvents
  \/ \E i \in 1..Len(tasks) : processEventResume(i)
  \/ processEventsThen
  \/ finalize
  \/ countPutSettles
  \/ emailSettles
  \/ tokenPutSettles
  \/ finalizeSettles

Spec == Init /\ [][Next]_vars

\* Every external call is answered in the end and the event loop runs every
\* continuation that is ready: no step of the run stays enabled for ever
\* without being taken.
\* Checked for runs that start with no count or a count of 1 stored and with
\* one recipient configured.
InitLive ==
  /\ Init
  /\ countTable \in { {}, {1} }
  /\ config.recipients = <<"a">>

SpecLive == InitLive /\ [][Next]_vars /\ WF_vars(Next)

(* ------------------------- runs within a month ------------------------- *)
\* Number of SMS this run got delivered: SNS requests answered with success.
Delivered(ts) ==
  Cardinality({ i \in 1..Len(ts) : ts[i].publish /\ ts[i].line.kind = "TextSent" })

\* The handler is invoked again, in the same month, after the previous
\* invocation has ended: a new AppContext, the same two DynamoDB tables.
nextRun ==
  /\ phase \in { "FINALIZED", "FAILED" }
  /\ runs.n < MaxRuns
  /\ runs' = [n |-> runs.n + 1, sent |-> runs.sent + Delivered(tasks)]
  /\ phase' = "INIT"
  /\ failedAt' = ""
  /\ credentials' = NoCredentials
  /\ phoneBook' = <<>>
  /\ todaysEvents' = <<>>
  /\ oldCount' = 0
  /\ sentCount' = 0
  /\ appEvents' = <<>>
  /\ tasks' = <<>>
  /\ fin' = [count |-> NoFin, email |-> NoFin, token |-> NoFin]
  /\ io' = NoIo
  /\ mainResult' = main("INIT")
  /\ UNCHANGED << config, smsImpl, tokenTable, countTable, range,
                  event, appStart, monthKeys >>

NextRuns ==
  \/ Next
  \/ nextRun

SpecRuns == Init /\ [][NextRuns]_vars

(* ------------------------- the contacts sheet -------------------------- *)
DigitStrings == UNION { [1..n -> { "1", "5" }] : n \in 0..MaxDigits }

\* The digits d written the way a sheet holds them: "(ddd) ddd...".
Punctuated(d) ==
  IF Len(d) >= 3
  THEN <<"(">> \o SubSeq(d, 1, 3) \o <<")", " ">> \o SubSeq(d, 4, Len(d))
  ELSE <<"-">> \o d

RawPhones == DigitStrings \cup { Punctuated(d) : d \in DigitStrings }

ContactNames == { <<>>, <<" ", "J">>, <<"k">> }

TenDigits == <<"5", "5", "5", "1", "2", "3", "4", "5", "6", "7">>

ContactRows ==
  LET raws == { <<>>, TenDigits, Punctuated(TenDigits), <<"1">> \o TenDigits,
                <<"5">> \o TenDigits, <<"1", "2", "3">> }
  IN  { <<>> } \cup { <<n>> : n \in ContactNames }
               \cup { <<n, r>> : n \in ContactNames, r \in raws }
               \cup { <<n, r, <<"x">> >> : n \in { <<"k">> }, r \in { TenDigits } }

\* Values a sheet can hold: one row with any raw phone text, or up to
\* MaxRows rows of every shape.
ContactSheets ==
  { << <<n, r>> >> : n \in { <<"J">> }, r \in RawPhones } \cup
  UNION { [1..k -> ContactRows] : k \in 0..MaxRows }

\* The Sheets API has answered getSheetRange; nothing else has happened yet.
InitContacts ==
  /\ config = [smsEnabled |-> TRUE, monthlyQuota |-> MaxQuota,
               emailEnabled |-> TRUE, recipients |-> <<"a">>]
  /\ smsImpl = "boolean"
  /\ phase = "AUTHORIZED"
  /\ failedAt = ""
  /\ tokenTable = { [access_token |-> "a1", refresh_token |-> "r1", expiry_date |-> 1] }
  /\ countTable = {}
  /\ credentials = [access_token |-> "a1", refresh_token |-> "r1", expiry_date |-> 1,
                    id_token |-> ""]
  /\ phoneBook = <<>>
  /\ todaysEvents = <<>>
  /\ oldCount = 0
  /\ sentCount = 0
  /\ appEvents = <<>>
  /\ tasks = <<>>
  /\ fin = [count |-> NoFin, email |-> NoFin, token |-> NoFin]
  /\ io = [NoIo EXCEPT !.tokenGets = 1]
  /\ mainResult = main("AUTHORIZED")
  /\ range \in [st : { "fetched" }, values : ContactSheets]
  /\ runs = [n |-> 1, sent |-> 0]
  /\ event = NoEvent
  /\ appStart = NoMoment
  /\ monthKeys = NoMonthKeys

\* getContacts: getSheetRange(...).then(range => this.parseContacts(range)),
\* then `phoneBook => this.phoneBook = phoneBook`.
getContacts ==
  /\ range.st = "fetched"
  /\ phoneBook' = parseContacts(range.values)
  /\ range' = [range EXCEPT !.st = "parsed"]
  /\ UNCHANGED << config, smsImpl, phase, failedAt, tokenTable, countTable, credentials,
                  todaysEvents, oldCount, sentCount, appEvents, tasks, fin, io,
                  mainResult, runs,
                  event, appStart, monthKeys >>

SpecContacts == InitContacts /\ [][getContacts]_vars

(* ---------------------- credential reconciliation ---------------------- *)
\* Credentials the OAuth2 client can hold at the end of a run.
Snapshots ==
  [access_token : { "a1", "a2" }, refresh_token : { "r1", "r2" }, expiry_date : { 1, 2 },
   id_token : { "", "id" }]

\* Records the Token table can hold when reconciliation starts.
TokenRecords ==
  [access_token : { "a1", "a2" }, refresh_token : { "r1", "r2" }, expiry_date : { 1, 2 }]

\* Events have been processed; the snapshot and the stored token are any.
InitReconcile ==
  /\ config = [smsEnabled |-> TRUE, monthlyQuota |-> MaxQuota,
               emailEnabled |-> TRUE, recipients |-> <<"a">>]
  /\ smsImpl = "boolean"
  /\ phase = "PROCESSED"
  /\ failedAt = ""
  /\ tokenTable \in { {} } \cup { {r} : r \in TokenRecords }
  /\ countTable = {}
  /\ credentials \in Snapshots
  /\ phoneBook = <<>>
  /\ todaysEvents = <<>>
  /\ oldCount = 0
  /\ sentCount = 0
  /\ appEvents = << Line("NoEvents", <<>>, "", 0) >>
  /\ tasks = <<>>
  /\ fin = [count |-> NoFin, email |-> NoFin, token |-> NoFin]
  /\ io = [NoIo EXCEPT !.tokenGets = 1, !.countGets = 1]
  /\ mainResult = main("PROCESSED")
  /\ range = NoRange
  /\ runs = [n |-> 1, sent |-> 0]
  /\ event = NoEvent
  /\ appStart = NoMoment
  /\ monthKeys = NoMonthKeys

\* updateTokenOnRefresh(this.auth.credentials) is called, up to its await.
reconcile ==
  /\ fin.token.st \in { "none", "resolved" }
  /\ io.tokenPuts < MaxReconciles
  /\ fin' = [fin EXCEPT !.token = finalizeToken(credentials)]
  /\ io' = [io EXCEPT !.tokenPuts = @ + (IF fin'.token.st = "pending" THEN 1 ELSE 0)]
  /\ UNCHANGED << config, smsImpl, phase, failedAt, tokenTable, countTable, credentials,
                  phoneBook, todaysEvents, oldCount, sentCount, appEvents, tasks,
                  mainResult, range, runs,
                  event, appStart, monthKeys >>

NextReconcile ==
  \/ reconcile
  \/ tokenPutSettles

SpecReconcile == InitReconcile /\ [][NextReconcile]_vars

(* --------------------------- the text message -------------------------- *)
\* event.start of a Google Calendar event: all-day events carry `date`,
\* timed events carry `dateTime`; `timeZone` is optional in both.
Starts ==
  [kind : { "date" }, at : { 0, 1, 2 }, timeZone : TimeZones \cup { Undefined }] \cup
  [kind : { "dateTime" }, at : { 2, 22, 40 }, timeZone : TimeZones \cup { Undefined }]

\* The pipeline at rest around a step that is looked at on its own.
AtRest(ph) ==
  /\ config = [smsEnabled |-> TRUE, monthlyQuota |-> MaxQuota,
               emailEnabled |-> TRUE, recipients |-> <<"a">>]
  /\ smsImpl = "boolean"
  /\ phase = ph
  /\ failedAt = ""
  /\ tokenTable = { [access_token |-> "a1", refresh_token |-> "r1", expiry_date |-> 1] }
  /\ countTable = {}
  /\ credentials = [access_token |-> "a1", refresh_token |-> "r1", expiry_date |-> 1,
                    id_token |-> ""]
  /\ phoneBook = <<>>
  /\ todaysEvents = <<>>
  /\ oldCount = 0
  /\ sentCount = 0
  /\ appEvents = <<>>
  /\ tasks = <<>>
  /\ fin = [count |-> NoFin, email |-> NoFin, token |-> NoFin]
  /\ mainResult = main(ph)
  /\ range = NoRange
  /\ runs = [n |-> 1, sent |-> 0]

\* An event of a calendar with a time zone is about to be rendered.
InitMessage ==
  /\ AtRest("FETCHED")
  /\ io = [NoIo EXCEPT !.tokenGets = 1, !.countGets = 1]
  /\ event \in [st : { "fetched" }, start : Starts, calendarTimeZone : TimeZones,
                 message : { [st |-> "none"] }]
  /\ appStart = NoMoment
  /\ monthKeys = NoMonthKeys

\* readEventInfo calls this.toTextMessage(event, ...).
renderTextMessage ==
  /\ event.st = "fetched"
  /\ event' = [event EXCEPT !.st = "read", !.message = toTextMessage(event.start)]
  /\ UNCHANGED << config, smsImpl, phase, failedAt, tokenTable, countTable, credentials,
                  phoneBook, todaysEvents, oldCount, sentCount, appEvents, tasks, fin, io,
                  mainResult, range, runs, appStart, monthKeys >>

SpecMessage == InitMessage /\ [][renderTextMessage]_vars

(* ------------------------- the following run -------------------------- *)
\* The handler is invoked again after a run whose reconciliation has ended:
\* a new AppContext authorizes from the Token table, no token refresh occurs
\* while it fetches, and it has no events to process.
followingRun ==
  /\ fin.token.st = "resolved"
  /\ tokenTable # {}
  /\ runs.n < MaxRuns
  /\ runs' = [runs EXCEPT !.n = @ + 1]
  /\ credentials' = authorizeGoogleServices(CHOOSE t \in tokenTable : TRUE)
  /\ fin' = [count |-> NoFin, email |-> NoFin, token |-> NoFin]
  /\ io' = [NoIo EXCEPT !.tokenGets = 1, !.countGets = 1]
  /\ UNCHANGED << config, smsImpl, phase, failedAt, tokenTable, countTable, phoneBook,
                  todaysEvents, oldCount, sentCount, appEvents, tasks, mainResult, range,
                  event, appStart, monthKeys >>

NextFollowing ==
  \/ reconcile
  \/ tokenPutSettles
  \/ followingRun

SpecFollowing == InitReconcile /\ [][NextFollowing]_vars

(* ------------------------- the month of the run ------------------------ *)
\* config.time.defaultTimeZone.
defaultTimeZone == "America/New_York"

\* Start instants around the end of a month of 30 days (hour 720).
StartInstants == { 700, 716, 719, 722, 730 }

\* month.format('YYYY-MM') of a Moment: the month its zone shows, counted
\* in months of 30 days.
formatMonth(m) == (m.at + utcOffset(m.timeZone)) \div 720

\* moment.fn.tz(name): sets the zone of the Moment it is called on, in place.
tz(m, name) == [m EXCEPT !.timeZone = name]

\* `new AppContext(config)` took appStart = moment() in the zone of the
\* process; the calendar that getCalendar will answer has any time zone or
\* none.
InitMonth ==
  /\ AtRest("AUTHORIZED")
  /\ io = [NoIo EXCEPT !.tokenGets = 1]
  /\ event = NoEvent
  /\ appStart \in [at : StartInstants, timeZone : TimeZones]
  /\ monthKeys \in [st : { "none" }, calendarTimeZone : TimeZones \cup { Undefined },
                     read : { "" }, written : { "" }]

\* fetchData calls smsCountDb.getCurrentCount() while it builds the array of
\* Promise.all: getCountByMonth(appStart) formats the key at once.
getCurrentCount ==
  /\ monthKeys.st = "none"
  /\ monthKeys' = [monthKeys EXCEPT !.st = "read", !.read = formatMonth(appStart)]
  /\ io' = [io EXCEPT !.countGets = @ + 1]
  /\ UNCHANGED << config, smsImpl, phase, failedAt, tokenTable, countTable, credentials,
                  phoneBook, todaysEvents, oldCount, sentCount, appEvents, tasks, fin,
                  mainResult, range, runs, event, appStart >>

\* getCalendar has answered: getTodaysEvents(calendar) calls
\* this.context.appStart.tz(calendar.timeZone || defaultTimeZone).
getTodaysEvents ==
  /\ monthKeys.st = "read"
  /\ LET timeZone == IF monthKeys.calendarTimeZone # Undefined
                     THEN monthKeys.calendarTimeZone ELSE defaultTimeZone
     IN  appStart' = tz(appStart, timeZone)
  /\ monthKeys' = [monthKeys EXCEPT !.st = "fetched"]
  /\ phase' = "FETCHED"
  /\ mainResult' = main(phase')
  /\ UNCHANGED << config, smsImpl, failedAt, tokenTable, countTable, credentials,
                  phoneBook, todaysEvents, oldCount, sentCount, appEvents, tasks, fin, io,
                  range, runs, event >>

\* finalize calls smsCountDb.updateCount(...): updateCountByMonth(count,
\* appStart) formats the key of the entry it saves.
updateCount ==
  /\ monthKeys.st = "fetched"
  /\ monthKeys' = [monthKeys EXCEPT !.st = "written", !.written = formatMonth(appStart)]
  /\ io' = [io EXCEPT !.countPuts = @ + 1]
  /\ phase' = "FINALIZING"
  /\ mainResult' = main(phase')
  /\ UNCHANGED << config, smsImpl, failedAt, tokenTable, countTable, credentials,
                  phoneBook, todaysEvents, oldCount, sentCount, appEvents, tasks, fin,
                  range, runs, event, appStart >>

NextMonth ==
  \/ getCurrentCount
  \/ getTodaysEvents
  \/ updateCount

SpecMonth == InitMonth /\ [][NextMonth]_vars

(* =============================== claims ================================ *)
TaskIdx == 1..Len(tasks)

\* Candidates that passed the quota check and were handed to sendTextMessage.
AdmittedSet == { i \in TaskIdx : tasks[i].admitted }
NumAdmitted == Cardinality(AdmittedSet)

\* Candidates whose SNS request was issued and has been answered.
DispatchSucceeded == { i \in TaskIdx : tasks[i].publish /\ tasks[i].line.kind = "TextSent" }
DispatchFailed == { i \in TaskIdx : tasks[i].publish /\ tasks[i].line.kind = "Error" }

\* Quota slots left at run start: ceiling - baseline, never below zero.
Slots == IF config.monthlyQuota > oldCount THEN config.monthlyQuota - oldCount ELSE 0

Qualifying(i) == readEventInfo(todaysEvents[i], phoneBook).ok

AfterProcessing == phase \in { "PROCESSED", "FINALIZING", "FINALIZED" }

\* C1: within one run the number of candidates admitted to dispatch never
\* exceeds ceiling - baseline, whatever the interleaving of the dispatches.
C1_AdmissionsWithinQuota == NumAdmitted <= Slots

\* C2: with N qualifying, valid candidates and ceiling - baseline = k < N,
\* exactly k reach the messaging service and N - k get the quota-reached line.
C2_ExactlyKAdmitted ==
  LET N == Len(todaysEvents)
      k == config.monthlyQuota - oldCount
  IN  ( /\ AfterProcessing
        /\ config.smsEnabled
        /\ N > 0
        /\ \A i \in 1..N : Qualifying(i)
        /\ 0 <= k
        /\ k < N )
      => /\ Cardinality({ i \in TaskIdx : tasks[i].publish }) = k
         /\ Cardinality({ i \in TaskIdx : tasks[i].line.kind = "QuotaReached" }) = N - k

\* C3: tryAdmit is one atomic step: in every step the counter of admissions
\* grows by exactly the number of candidates admitted in that step (the
\* increment is neither deferred past a suspension point nor made without an
\* admission).
C3_TryAdmitAtomic ==
  [][NumAdmitted' - NumAdmitted = sentCount' - sentCount]_vars

\* C4: admittedThisRun never decreases, and a candidate whose dispatch failed
\* still holds its quota slot: the counter covers every answered dispatch,
\* failed ones included.
C4_FailedDispatchKeepsSlot ==
  [][ /\ sentCount' >= sentCount
      /\ sentCount' >= Cardinality(DispatchSucceeded' \cup DispatchFailed') ]_vars

\* C5: when the baseline read at run start is at or above the ceiling, no
\* messaging call is made, the sent counter stays 0 and every qualifying
\* candidate gets the quota-reached line.
C5_QuotaExhausted ==
  (phase \notin { "INIT", "AUTHORIZED" } /\ oldCount >= config.monthlyQuota)
  => /\ io.publishes = 0
     /\ sentCount = 0
     /\ \A i \in TaskIdx : Qualifying(i) =>
          /\ ~tasks[i].admitted
          /\ tasks[i].line.kind = "QuotaReached"
     /\ AfterProcessing =>
          \A i \in 1..Len(todaysEvents) : Qualifying(i) => appEvents[i].kind = "QuotaReached"

C5_Witness ==
  /\ phase = "FINALIZED"
  /\ oldCount >= config.monthlyQuota
  /\ config.smsEnabled
  /\ Len(todaysEvents) = MaxEvents
  /\ \A i \in 1..Len(todaysEvents) : Qualifying(i) /\ appEvents[i].kind = "QuotaReached"

\* C6: an event whose summary has no asterisk-wrapped segment is classified
\* non-qualifying in every quota state: it is never admitted, never sent, and
\* its outcome line is the non-qualifying line.
C6_NonQualifying ==
  \A i \in TaskIdx :
    (todaysEvents[i] # <<>> /\ EVENT_SUMMARY_REGEX(todaysEvents[i]) = <<>>)
    => /\ ~tasks[i].admitted
       /\ ~tasks[i].publish
       /\ tasks[i].line.kind = "Error"
       /\ tasks[i].line.detail = "Non-notification event"

\* C7: a failure of the messaging service is never fatal: no processEvent
\* promise rejects, processEvents never fails the run, and once processing is
\* over every event has its outcome line, the failed ones an error line.
C7_SendFailureNotFatal ==
  /\ failedAt # "processEvents"
  /\ \A i \in TaskIdx : tasks[i].st # "rejected"
  /\ (AfterProcessing /\ Len(todaysEvents) > 0) =>
       /\ Len(appEvents) = Len(todaysEvents)
       /\ \A i \in TaskIdx : appEvents[i] = tasks[i].line /\ appEvents[i].kind # ""

C7_Witness ==
  /\ phase = "FINALIZED"
  /\ \E i, j \in TaskIdx :
       /\ i \in DispatchFailed
       /\ appEvents[i].detail = "AWSError"
       /\ j \in DispatchSucceeded

\* C8: with SMS sending disabled no request ever reaches the messaging service.
C8_DisabledNoPublish ==
  ~config.smsEnabled => (io.publishes = 0 /\ \A i \in TaskIdx : ~tasks[i].publish)

C8_Witness ==
  /\ ~config.smsEnabled
  /\ phase = "FINALIZED"
  /\ NumAdmitted = MaxEvents

\* C9: the quota record is written at most once per run, only during
\* finalize, and only if admittedThisRun > 0.
C9_QuotaWriteOnlyIfAdmitted ==
  /\ io.countPuts <= 1
  /\ io.countPuts > 0 =>
       /\ phase \in { "FINALIZING", "FINALIZED", "FAILED" }
       /\ sentCount > 0

FinalizeBegun == fin.token.st # "none"

\* C10: finalize issues a write of the credential if and only if the snapshot
\* has all four of access_token, refresh_token, expiry_date and id_token;
\* without id_token nothing is written and the result line is the
\* "no update necessary" line.
C10_CredentialWriteIff ==
  /\ ~FinalizeBegun => io.tokenPuts = 0
  /\ FinalizeBegun =>
       /\ io.tokenPuts = (IF /\ credentials.access_token # ""
                             /\ credentials.refresh_token # ""
                             /\ credentials.expiry_date # 0
                             /\ credentials.id_token # ""
                          THEN 1 ELSE 0)
       /\ credentials.id_token = "" =>
            /\ fin.token.line.kind = "NoTokenUpdate"
            /\ tokenTable \subseteq StoredTokens

C10_Witness ==
  /\ phase = "FINALIZED"
  /\ credentials.id_token # ""
  /\ io.tokenPuts = 1
  /\ tokenTable = { GoogleAuthTokenOf(credentials) }

NoWrites == io.countPuts = 0 /\ io.tokenPuts = 0

\* C11: when the contacts fetch or the events fetch fails the run is in
\* FAILED and stays there: no event was processed, no messaging call and no
\* summary email were made, and neither the SmsCount nor the Token record was
\* written.
C11_FetchFailureIsFatal ==
  failedAt = "fetchData"
  => /\ phase = "FAILED"
     /\ tasks = <<>>
     /\ appEvents = <<>>
     /\ io.publishes = 0
     /\ io.emails = 0
     /\ NoWrites
     /\ \A t \in FinTasks : fin[t].st = "none"

\* The contacts fetch failed while the events fetch answered with events and
\* the credentials were refreshed, so that a write would have been due.
C11_Witness ==
  /\ failedAt = "fetchData"
  /\ phase = "FAILED"
  /\ Len(todaysEvents) > 0
  /\ phoneBook = <<>>
  /\ updateTokenOnRefresh(credentials)
  /\ config.smsEnabled

\* C12: a failed read of the month's count at run start is fatal: the run is
\* in FAILED, no event is processed, no message is sent and nothing is
\* written to the SmsCount table.
C12_CountReadFailureIsFatal ==
  io.countGetFails > 0
  => /\ phase = "FAILED"
     /\ failedAt = "fetchData"
     /\ tasks = <<>>
     /\ io.publishes = 0
     /\ io.countPuts = 0

\* C13: a failure of any one of the three finalize actions (count put,
\* summary email, token put) is caught and turned into a result line: none of
\* the three promises rejects and finalize never fails the run.
C13_FinalizeFailureAbsorbed ==
  /\ \A t \in FinTasks : fin[t].st # "rejected"
  /\ failedAt # "finalize"

\* C14: when authorize or fetchData fails, the caller of the run sees a
\* failure: the promise handed back by main is rejected, not fulfilled.
C14_FatalErrorReachesCaller ==
  (phase = "FAILED" /\ failedAt \in { "authorize", "fetchData" })
  => mainResult.st = "rejected"

\* The line l is an outcome of event i: it is what processEvent(event i)
\* resolved to, and where it names a summary or a message it is that event's.
LineIsOf(l, i) ==
  /\ l = tasks[i].line
  /\ l.kind \in { "TextSent", "WouldHaveSent", "Error", "QuotaReached" }
  /\ l.kind = "Error" => l.text = todaysEvents[i]
  /\ l.kind \in { "TextSent", "WouldHaveSent" } =>
       /\ Qualifying(i)
       /\ l.text = readEventInfo(todaysEvents[i], phoneBook).textMessage
  /\ (l.kind = "Error" /\ l.detail = "AWSError") => tasks[i].publish

Report == fin.email.html

\* C16: the report rendered at finalize ends with a closing tally line that
\* states baseline + admittedThisRun against the ceiling.
C16_ReportEndsWithTally ==
  FinalizeBegun
  => /\ Len(Report.ul) > 0
     /\ Report.ul[Len(Report.ul)].kind = "Tally"
     /\ Report.ul[Len(Report.ul)].count = oldCount + sentCount

\* C17: when EMAIL_RECIPIENTS is blank or unset, or email is disabled, no
\* request is ever made to the email service.
C17_NoRecipientsNoEmail ==
  (trim(config.recipients) = <<>> \/ ~config.emailEnabled) => io.emails = 0

\* C18: over non-overlapping runs of one month with SMS enabled, once the SMS
\* delivered by the earlier runs of the month have met the monthly quota, a
\* later run of that month makes no request to the messaging service.
C18_QuotaMetStopsLaterRuns ==
  (config.smsEnabled /\ runs.sent >= config.monthlyQuota) => io.publishes = 0

\* '+1' followed by ten digits.
IsCanonical(p) ==
  /\ Len(p) = 12
  /\ p[1] = "+"
  /\ p[2] = "1"
  /\ \A i \in 3..12 : IsDigit(p[i])

\* Row i of the sheet has two columns and a phone text that normalizes.
RowParses(i) ==
  /\ Len(range.values[i]) >= 2
  /\ formatPhone(range.values[i][2]) # <<>>

RowKey(i) == toLowerCase(trim(range.values[i][1]))

OneRow == Len(range.values) = 1 /\ Len(range.values[1]) = 2 /\ RowKey(1) = <<"j">>

\* C20: phone normalization of any raw text: with the non-digits removed, ten
\* digits give '+1' and the digits, eleven digits beginning with '1' give '+'
\* and the digits, and anything else is rejected (the contact gets no entry).
C20_PhoneNormalization ==
  (range.st = "parsed" /\ OneRow)
  => LET raw == range.values[1][2]
         digits == SelectSeq(raw, IsDigit)
         accepted == <<"j">> \in DOMAIN phoneBook
     IN  /\ Len(digits) = 10 =>
              /\ formatPhone(raw) = <<"+", "1">> \o digits
              /\ accepted /\ phoneBook[<<"j">>] = <<"+", "1">> \o digits
         /\ (Len(digits) = 11 /\ digits[1] = "1") =>
              /\ formatPhone(raw) = <<"+">> \o digits
              /\ accepted /\ phoneBook[<<"j">>] = <<"+">> \o digits
         /\ (Len(digits) # 10 /\ ~(Len(digits) = 11 /\ digits[1] = "1")) =>
              /\ formatPhone(raw) = <<>>
              /\ ~accepted

\* "(155) 55555555": eleven digits beginning with 1, written with punctuation.
C20_Witness ==
  /\ range.st = "parsed"
  /\ OneRow
  /\ Len(range.values[1][2]) = 14
  /\ range.values[1][2][1] = "("
  /\ range.values[1][2][2] = "1"
  /\ phoneBook[<<"j">>] = <<"+">> \o SelectSeq(range.values[1][2], IsDigit)

\* The stored credential a snapshot reconciles to.
ReconciledStore ==
  { [access_token |-> credentials.access_token,
     expiry_date |-> credentials.expiry_date,
     refresh_token |-> credentials.refresh_token] }

\* C21: credential reconciliation is idempotent: after the snapshot with an
\* id_token has been saved, the Token table holds the same record whether the
\* reconciliation was applied once or applied again to the same snapshot.
C21_ReconcileIdempotent ==
  (fin.token.st = "resolved" /\ fin.token.line.kind = "TokenSaved")
  => /\ credentials.id_token # ""
     /\ io.tokenPuts \in 1..MaxReconciles
     /\ tokenTable = ReconciledStore

\* The second application to the same snapshot has been saved.
C21_Witness ==
  /\ fin.token.st = "resolved"
  /\ fin.token.line.kind = "TokenSaved"
  /\ io.tokenPuts = MaxReconciles
  /\ credentials.id_token # ""
  /\ tokenTable = ReconciledStore

\* The messaging service answered the send for event i with a failure.
SendFailed(i) == tasks[i].publish /\ tasks[i].line.kind = "Error"

RECURSIVE SequentialAdmitted(_, _, _)
\* Admissions when processEvent is run for one event after the other, each
\* to its end before the next is started, with the same answers of the
\* messaging service: from event i on, with `sent` sends counted so far.
SequentialAdmitted(i, sent, admitted) ==
  IF i > Len(todaysEvents) THEN admitted
  ELSE IF isMonthlyQuotaReached(oldCount, sent, config.monthlyQuota)
       THEN SequentialAdmitted(i + 1, sent, admitted)
       ELSE IF ~Qualifying(i)
            THEN SequentialAdmitted(i + 1, sent, admitted)
            ELSE LET p == sendTextMessage(smsImpl, config.smsEnabled)
                     value == IF p.publish THEN publishResolved(smsImpl) ELSE p.value
                 IN  SequentialAdmitted(i + 1,
                                        IF SendFailed(i) THEN sent
                                        ELSE sentCountAfter(sent, value),
                                        admitted + 1)

\* C22: for the same events, directory, baseline and ceiling, the run admits
\* as many candidates when all are started before any dispatch completes as
\* when they are processed strictly one after the other.
C22_ConcurrentEqualsSequential ==
  AfterProcessing => NumAdmitted = SequentialAdmitted(1, 0, 0)

\* Event i names a recipient (*Name*) that the phone book does not list.
NoPhoneFor(i) ==
  /\ todaysEvents[i] # <<>>
  /\ EVENT_SUMMARY_REGEX(todaysEvents[i]) # <<>>
  /\ ~Qualifying(i)

\* C23: a qualifying event whose recipient has no phone number is rejected
\* before admission: no messaging call is made for it, it is not counted, and
\* its outcome line states the reason of the rejection.  (Stated for runs
\* whose baseline is below the ceiling, where the event is looked at at all.)
C23_InvalidCandidateRejectedWithReason ==
  \A i \in TaskIdx :
    (NoPhoneFor(i) /\ oldCount < config.monthlyQuota)
    => /\ ~tasks[i].admitted
       /\ ~tasks[i].publish
       /\ tasks[i].line.kind = "Error"
       /\ tasks[i].line.detail = "No phone number"

\* Everything finalize works from reflects all the events of the run.
AllEventsReflected ==
  /\ \A i \in TaskIdx : tasks[i].st = "resolved"
  /\ Len(tasks) = Len(todaysEvents)
  /\ Len(appEvents) = (IF Len(todaysEvents) = 0 THEN 1 ELSE Len(todaysEvents))
  /\ fin.count.entry.count = oldCount + sentCount
  /\ fin.email.html.ul = appEvents
  /\ sentCount = Cardinality({ i \in TaskIdx : tasks[i].line.kind = "TextSent" })

FinalizeCalled == phase \in { "FINALIZING", "FINALIZED" } \/ failedAt = "finalize"

\* C25: in finalize all three actions (persist the count, send the summary,
\* reconcile the credential) are started; whether each one calls its
\* collaborator depends on the configuration and the snapshot alone, never on
\* the outcome or the progress of the other two.
C25_FinalizeActionsIndependent ==
  FinalizeCalled
  => /\ \A t \in FinTasks : fin[t].st # "none"
     /\ io.countPuts = (IF config.smsEnabled THEN 1 ELSE 0)
     /\ io.emails = (IF config.emailEnabled /\ Len(RecipientsOf(config.recipients)) > 0
                     THEN 1 ELSE 0)
     /\ io.tokenPuts = (IF updateTokenOnRefresh(credentials) THEN 1 ELSE 0)

\* The summary email was rejected and failed the run; the count and the
\* credential were written all the same.
C25_Witness ==
  /\ phase = "FAILED" /\ failedAt = "finalize"
  /\ fin.email.st = "rejected"
  /\ fin.count.st = "resolved" /\ io.countPuts = 1
  /\ fin.token.line.kind = "TokenSaved" /\ io.tokenPuts = 1

\* Events for which an SNS request was issued.
Published(ts) == { i \in 1..Len(ts) : ts[i].publish }

\* C26: the messaging service is invoked at most once per calendar event per
\* run: every request belongs to one admitted event, requests are issued only
\* when the events are dispatched, and nothing is sent again after a failure
\* or for an event that was not admitted.
C26_AtMostOneSendPerEvent ==
  [][ /\ io'.publishes = Cardinality(Published(tasks'))
      /\ io'.publishes <= Len(todaysEvents')
      /\ \A i \in Published(tasks') : tasks'[i].admitted
      /\ phase # "FETCHED" => io'.publishes = io.publishes ]_vars

\* One send failed and was not repeated; the other event was not admitted
\* and was not sent.
C26_Witness ==
  /\ phase = "FINALIZED"
  /\ io.publishes = 1
  /\ \E i, j \in TaskIdx :
        /\ tasks[i].publish /\ tasks[i].line.kind = "Error"
        /\ ~tasks[j].admitted /\ ~tasks[j].publish

\* C27: with SMS sending disabled the line of an admitted candidate is the
\* simulated-send line and never the "sent" line; a "sent" line appears only
\* for an event whose SNS request was issued and answered with success.
C27_SentLineOnlyAfterRealSend ==
  \A i \in TaskIdx :
    /\ (tasks[i].admitted /\ tasks[i].st = "resolved" /\ ~config.smsEnabled)
         => tasks[i].line.kind = "WouldHaveSent"
    /\ tasks[i].line.kind = "TextSent" => tasks[i].publish

\* C28: the sent counter counts exactly the messaging calls that succeeded:
\* it is never incremented for an event whose send failed or for which no
\* messaging call was made.
C28_SentCountCountsSuccessfulCalls ==
  /\ sentCount <= io.publishes
  /\ AfterProcessing => sentCount = Cardinality(DispatchSucceeded)

Deciding == { "FETCHED", "PROCESSING", "PROCESSED" }

\* C30: the baseline used for every admission decision of a run is the count
\* persisted for the current month, read exactly once during the fetch
\* phase, and neither event processing nor finalize modifies it.
C30_BaselineIsPersistedCount ==
  [][ /\ phase' \in Deciding
         => /\ io'.countGets = 1
            /\ oldCount' = getCountByMonth(countTable', FALSE)
      /\ phase # "AUTHORIZED" => oldCount' = oldCount ]_vars

\* C31: the time zone used to compute an event's local start is the event's
\* own start time zone when it has one and otherwise the calendar's time
\* zone; it is never undefined, and the message is rendered.
C31_TimeZoneFallsBackToCalendar ==
  event.st = "read"
  => /\ event.message.st = "rendered"
     /\ event.message.timeZone # Undefined
     /\ event.message.timeZone = (IF event.start.timeZone # Undefined
                                  THEN event.start.timeZone
                                  ELSE event.calendarTimeZone)

\* C32: the promise of save (and so of updateCount) resolves with the object
\* that was saved: the finalize line "Stored updated <month> SMS count
\* <count>" reports the month and the count written to the store.
C32_StoredLineReportsWhatWasWritten ==
  (fin.count.st = "resolved" /\ io.countPuts = 1)
  => /\ fin.count.line.kind = "Stored"
     /\ fin.count.line.detail = MONTH
     /\ countTable = { fin.count.line.count }

\* C33: in one run the credential record is read at most once (by authorize)
\* and written at most once, and the quota record is written at most once
\* (both by finalize).
C33_StoreAccessesAtMostOnce ==
  /\ io.tokenGets = (IF phase = "INIT" THEN 0 ELSE 1)
  /\ io.tokenPuts <= 1
  /\ io.countPuts <= 1
  /\ ~FinalizeCalled => (io.tokenPuts = 0 /\ io.countPuts = 0)

\* A complete run that read the credential and wrote both records.
C33_Witness ==
  /\ phase = "FINALIZED"
  /\ io.tokenGets = 1 /\ io.tokenPuts = 1 /\ io.countPuts = 1
  /\ fin.token.line.kind = "TokenSaved"
  /\ sentCount >= 1

\* C34: within one run the 'YYYY-MM' key under which finalize writes the
\* quota count is the key from which the baseline was read during fetch, for
\* every start instant and every calendar time zone, month boundaries
\* included.
C34_SameMonthKeyReadAndWritten ==
  monthKeys.st = "written" => monthKeys.written = monthKeys.read

\* C35: a run never lowers the persisted monthly count: whenever it writes
\* the quota record, the value written is at least the value that was stored
\* for the month when the run started, also when the baseline read failed.
C35_PersistedCountNeverLowered ==
  [][ \A before \in countTable : \A after \in countTable' : after >= before ]_vars

\* C36: when the quota store holds no record for the current month the run
\* is not aborted: the baseline is 0 and the events are processed as in any
\* run that starts from a count of 0.
C36_NoRecordMeansZero ==
  (countTable = {} /\ phase \in Deciding)
  => /\ oldCount = 0
     /\ failedAt = ""
     /\ \A i \in TaskIdx : tasks[i].line.kind # "QuotaReached"

\* The first run of a month: no record, the read did not fail, and an event
\* was sent.
C36_Witness ==
  /\ phase = "PROCESSED"
  /\ countTable = {}
  /\ io.countGets = 1 /\ io.countGetFails = 0
  /\ sentCount >= 1
  /\ io.publishes >= 1

\* C37: with SMS sending disabled a run leaves the quota store unchanged: no
\* write of the quota record is made at finalize, whatever the sent counter
\* in memory is.
C37_DisabledLeavesQuotaStore ==
  [][ ~config.smsEnabled
      => /\ countTable' = countTable
         /\ io'.countPuts = 0
         /\ fin'.count.st # "pending" ]_vars

\* A finalized run with SMS disabled whose sent counter is not zero.
C37_Witness ==
  /\ ~config.smsEnabled
  /\ phase = "FINALIZED"
  /\ sentCount >= 1
  /\ fin.count.line.kind = "Stored"
  /\ io.countPuts = 0

TokenFields == { "access_token", "refresh_token", "expiry_date" }

\* C38: the credential record written by reconciliation holds access_token,
\* refresh_token and expiry_date only, never id_token; a following run in
\* which no token refresh occurs loads a snapshot without id_token and
\* makes no credential write.
C38_FollowingRunWritesNoCredential ==
  /\ \A r \in tokenTable : DOMAIN r = TokenFields
  /\ runs.n >= 2
     => /\ credentials.id_token = ""
        /\ io.tokenPuts = 0
        /\ fin.token.st \in { "none", "resolved" }
        /\ fin.token.st = "resolved" => fin.token.line.kind = "NoTokenUpdate"

\* The run before wrote the credential; the following run has reconciled
\* and left the record alone.
C38_Witness ==
  /\ runs.n = 2
  /\ fin.token.st = "resolved"
  /\ fin.token.line.kind = "NoTokenUpdate"
  /\ \E r \in tokenTable :
        /\ r.access_token = credentials.access_token
        /\ r.access_token = "a2"

\* C39: every run terminates: provided each external call is answered in the
\* end, the run reaches FINALIZED or FAILED, for any list of events and any
\* mix of successes and failures of the events.
C39_RunTerminates == <>(phase \in { "FINALIZED", "FAILED" })

\* A run that ended after one send failed and another succeeded.
C39_Witness ==
  /\ phase = "FINALIZED"
  /\ mainResult.st = "fulfilled"
  /\ DispatchFailed # {}
  /\ DispatchSucceeded # {}
====
